---------------------------- MODULE Spec2Model ----------------------------
(***************************************************************************)
(* Model of the truncated_gamma package:                                   *)
(*   - class TruncatedGamma (constructor and the four moment methods),     *)
(*   - function truncgamma_rvs (initial guess, root finding, sampling).    *)
(*                                                                         *)
(* Numbers.  Python floats are modelled in fixed point.                    *)
(*   - lengths (A, B, theta, mean_target, the variates) are integers in    *)
(*     units of 1/S;                                                       *)
(*   - probabilities, ratios and the values of the moment methods are      *)
(*     integers in units of 1/Q, wrapped in a record that also represents  *)
(*     nan, inf and -inf (numpy float64 division by zero does not raise);  *)
(*   - the shape alpha is a positive integer;                              *)
(*   - the arguments of the regularised incomplete gamma function are in   *)
(*     units of 1/ZS.                                                      *)
(* Every operation rounds to its grid, as a float operation rounds to the  *)
(* nearest representable number.                                           *)
(***************************************************************************)
EXTENDS Integers, Sequences, FiniteSets, TLC

(***************************************************************************)
(* Bounds of the model.                                                    *)
(***************************************************************************)
\* resolution of a probability, a ratio or a moment value: 1/Q
Q == 64
\* largest size argument of truncgamma_rvs that is enumerated
MaxSize == 2
\* cap on the objective evaluations of one root() call (hybr's maxfev)
MaxFev == 5
\* resolution of one draw of the generator: values r/R, r in 0..R-1
R == 4

\* resolution of a gammainc argument: 1/ZS (the step of ExpNegTable)
ZS == 16
\* resolution of a length: 1/S
S == ZS \div 2
\* internal scale of the gammainc evaluation
I == 10 ^ 6

VARIABLES
    \* ---- a TruncatedGamma object held by a caller ----
    inst,     \* the object's attribute dictionary, or NoObj
    ctor,     \* the last constructor call: how it was made, its values, what it raised
    rets,     \* per moment method, the values it returned on inst so far
    \* ---- one activation of truncgamma_rvs ----
    pc,       \* position in truncgamma_rvs
    call,     \* its arguments
    x0,       \* line 187
    cur,      \* the solver's current iterate (log_alpha, log_theta)
    nfev,     \* objective evaluations of the running root() call
    nctor,    \* TruncatedGamma objects constructed by this activation
    nroot,    \* root() invocations of this activation
    sol,      \* the OptimizeResult of root(), or NoSol
    calib,    \* (alpha, theta) of line 193, or NoCalib
    rng,      \* the generator made by line 196 (the last one made)
    u,        \* line 199
    res,      \* line 200
    ret,      \* the value returned to the caller, or NoRet
    err,      \* the exception that ended the activation, or NoErr
    steps,    \* the steps this activation has taken, in order
    memo,     \* one earlier seeded call and what it returned, or NoMemo
    between   \* calls started since the one in memo was kept (at most 2)

vars == <<inst, ctor, rets, pc, call, x0, cur, nfev, nctor, nroot, sol, calib,
          rng, u, res, ret, err, steps, memo, between>>

objVars == <<inst, ctor, rets>>
rvsVars == <<pc, call, x0, cur, nfev, nctor, nroot, sol, calib,
             rng, u, res, ret, err, steps, memo, between>>

(***************************************************************************)
(* Floats: finite values in units of 1/Q, or nan / inf / -inf.             *)
(***************************************************************************)
Fin(n) == [fin |-> TRUE, v |-> n]
NaN == [fin |-> FALSE, v |-> 0]
Inf == [fin |-> FALSE, v |-> 1]
NInf == [fin |-> FALSE, v |-> -1]

IsNaN(a) == a = NaN
Abs(n) == IF n < 0 THEN -n ELSE n
Sign(n) == IF n > 0 THEN 1 ELSE IF n < 0 THEN -1 ELSE 0
Signed(s) == IF s > 0 THEN Inf ELSE IF s < 0 THEN NInf ELSE NaN

\* a / b
FDiv(a, b) ==
    IF IsNaN(a) \/ IsNaN(b) THEN NaN
    ELSE IF ~a.fin /\ ~b.fin THEN NaN
    ELSE IF ~b.fin THEN Fin(0)
    ELSE IF ~a.fin THEN Signed(a.v * (IF b.v < 0 THEN -1 ELSE 1))
    ELSE IF b.v = 0 THEN Signed(Sign(a.v))
    ELSE Fin((a.v * Q) \div b.v)

\* a - b
FSub(a, b) ==
    IF IsNaN(a) \/ IsNaN(b) THEN NaN
    ELSE IF a.fin /\ b.fin THEN Fin(a.v - b.v)
    ELSE IF ~a.fin /\ ~b.fin THEN (IF a = b THEN NaN ELSE a)
    ELSE IF ~a.fin THEN a
    ELSE Signed(-b.v)

\* k * a / d for integers k > 0, d > 0
FScale(k, d, a) == IF a.fin THEN Fin((k * a.v) \div d) ELSE a

\* a ** 2
FSq(a) == IF IsNaN(a) THEN NaN ELSE IF a.fin THEN Fin((a.v * a.v) \div Q) ELSE Inf

RECURSIVE ISqrtFrom(_, _)
ISqrtFrom(n, k) == IF (k + 1) * (k + 1) > n THEN k ELSE ISqrtFrom(n, k + 1)

\* a ** 0.5 (numpy: nan for a negative argument)
FSqrt(a) ==
    IF IsNaN(a) \/ a = NInf THEN NaN
    ELSE IF a = Inf THEN Inf
    ELSE IF a.v < 0 THEN NaN
    ELSE Fin(ISqrtFrom(a.v * Q, 0))

(***************************************************************************)
(* scipy.special.gammainc(s, z) for an integer shape s >= 1:               *)
(*   P(s, z) = 1 - exp(-z) * sum_{k < s} z^k / k!                          *)
(* evaluated at scale I and rounded to the nearest multiple of 1/Q.        *)
(***************************************************************************)
\* round(I * exp(-j/ZS)) for j = 0 .. 6*ZS
ExpNegTable ==
    << 1000000, 939413, 882497, 829029, 778801, 731616, 687289, 645649,
       606531, 569783, 535261, 502832, 472367, 443747, 416862, 391606,
       367879, 345591, 324652, 304983, 286505, 269146, 252840, 237521,
       223130, 209611, 196912, 184981, 173774, 163246, 153355, 144064,
       135335, 127136, 119433, 112197, 105399, 99013, 93014, 87379,
       82085, 77112, 72440, 68051, 63928, 60055, 56416, 52998,
       49787, 46771, 43937, 41275, 38774, 36425, 34218, 32145,
       30197, 28368, 26649, 25035, 23518, 22093, 20754, 19497,
       18316, 17206, 16163, 15184, 14264, 13400, 12588, 11825,
       11109, 10436, 9804, 9210, 8652, 8128, 7635, 7173,
       6738, 6330, 5946, 5586, 5248, 4930, 4631, 4350,
       4087, 3839, 3607, 3388, 3183, 2990, 2809, 2639,
       2479 >>

ExpNeg(z) == ExpNegTable[z + 1]

\* sum_{k = from .. s-1} of the Poisson terms, term being the one for k = from - 1
RECURSIVE PoissonTail(_, _, _, _)
PoissonTail(s, z, k, term) ==
    IF k >= s THEN 0
    ELSE LET t == (term * z) \div (ZS * k)
         IN  t + PoissonTail(s, z, k + 1, t)

\* I * P(s, z)
GammaincExact(s, z) ==
    LET upper == ExpNeg(z) + PoissonTail(s, z, 1, ExpNeg(z))
    IN  IF upper > I THEN 0 ELSE I - upper

\* Q * P(s, z), rounded to nearest
gammainc(s, z) == (GammaincExact(s, z) * Q + I \div 2) \div I

\* x / theta, both lengths, as a gammainc argument
ZOf(x, theta) == (x * ZS) \div theta

(***************************************************************************)
(* class TruncatedGamma                                                    *)
(***************************************************************************)
NoObj == [none |-> TRUE]
NoRaise == "none"
NoErr == [type |-> "none", msg |-> ""]

AlphaMsg == "The value of alpha should be greater than zero."
ThetaMsg == "The value of theta should be greater than zero."
LowerMsg == "The lower bound A should be greater than or equal to zero."
UpperMsg == "The upper bound B should be greater than A."

ValueError(msg) == [type |-> "ValueError", msg |-> msg]

\* a check with <= 0 relaxed to < 0, as the docstring words it
Validate_LessThanZero(A, B, alpha, theta) ==
    IF alpha < 0 THEN AlphaMsg
    ELSE IF theta < 0 THEN ThetaMsg
    ELSE IF A < 0 THEN LowerMsg
    ELSE IF B <= A THEN UpperMsg
    ELSE NoRaise

\* __init__, the four checks in their order: the message raised, or NoRaise
Validate(A, B, alpha, theta) ==
    IF alpha <= 0 THEN AlphaMsg
    ELSE IF theta <= 0 THEN ThetaMsg
    ELSE IF A < 0 THEN LowerMsg
    ELSE IF B <= A THEN UpperMsg
    ELSE NoRaise

\* the attributes but with the two bounds stored the other way round
Store_Swapped(A, B, alpha, theta) ==
    [alpha |-> alpha, theta |-> theta, A |-> B, B |-> A]

\* __init__, the four assignments: the attribute dictionary of the new object
Store(A, B, alpha, theta) ==
    [alpha |-> alpha, theta |-> theta, A |-> A, B |-> B]

\* TruncatedGamma(A, B, alpha, theta), parameters in the order of the signature
TruncatedGamma_init(A, B, alpha, theta) ==
    LET raised == Validate(A, B, alpha, theta)
    IN  [raised |-> IF raised = NoRaise THEN NoErr ELSE ValueError(raised),
         obj |-> IF raised = NoRaise THEN Store(A, B, alpha, theta) ELSE NoObj]

\* a signature whose parameters are in the order (alpha, theta, A, B)
Positional_SpecOrder(v1, v2, v3, v4) == TruncatedGamma_init(v3, v4, v1, v2)

\* a call TruncatedGamma(v1, v2, v3, v4): Python binds by position
Positional(v1, v2, v3, v4) == TruncatedGamma_init(v1, v2, v3, v4)

\* a call TruncatedGamma(alpha = .., theta = .., A = .., B = ..)
Keyword(alpha, theta, A, B) == TruncatedGamma_init(A, B, alpha, theta)

\* the probability mass of [A, B] and the same with the shape raised by k
Mass(self, k) ==
    LET zA == ZOf(self.A, self.theta)
        zB == ZOf(self.B, self.theta)
    IN  gammainc(self.alpha + k, zB) - gammainc(self.alpha + k, zA)

truncgamma_m1(self) ==
    LET denominator == Mass(self, 0)
        numerator == Mass(self, 1)
    IN  FScale(self.alpha * self.theta, S, FDiv(Fin(numerator), Fin(denominator)))

truncgamma_m2(self) ==
    LET denominator == Mass(self, 0)
        numerator == Mass(self, 2)
    IN  FScale(self.alpha * (self.alpha + 1) * self.theta * self.theta, S * S,
               FDiv(Fin(numerator), Fin(denominator)))

truncgamma_var(self) ==
    LET m1 == truncgamma_m1(self)
        m2 == truncgamma_m2(self)
    IN  FSub(m2, FSq(m1))

truncgamma_cv(self) ==
    LET var == truncgamma_var(self)
        mean == truncgamma_m1(self)
    IN  FDiv(FSqrt(var), mean)

Methods == {"m1", "m2", "var", "cv"}

MethodValue(m, self) ==
    CASE m = "m1" -> truncgamma_m1(self)
      [] m = "m2" -> truncgamma_m2(self)
      [] m = "var" -> truncgamma_var(self)
      [] m = "cv" -> truncgamma_cv(self)

\* a method that keeps its result on the object
SelfAfter_Cached(m, self) ==
    [f \in DOMAIN self \cup {"cache"} |->
        IF f = "cache" THEN MethodValue(m, self) ELSE self[f]]

\* the object after a moment method ran on it: no method assigns an attribute
SelfAfter(m, self) == self

(***************************************************************************)
(* A caller of the class: constructs objects and calls the moment methods. *)
(***************************************************************************)
\* values a caller passes to the constructor
Vals == -1 .. 2

NoRets == [m \in Methods |-> <<>>]

\* the values a method returned: the first one and the latest one are kept
Record(seq, v) == IF Len(seq) < 2 THEN Append(seq, v) ELSE <<seq[1], v>>

ConstructKeyword ==
    \E alpha \in Vals, theta \in Vals, A \in Vals, B \in Vals :
        LET r == Keyword(alpha, theta, A, B)
        IN  /\ inst' = r.obj
            /\ ctor' = [kind |-> "keyword", vals |-> <<alpha, theta, A, B>>,
                        raised |-> r.raised]
            /\ rets' = NoRets
            /\ UNCHANGED rvsVars

ConstructPositional ==
    \E v1 \in Vals, v2 \in Vals, v3 \in Vals, v4 \in Vals :
        LET r == Positional(v1, v2, v3, v4)
        IN  /\ inst' = r.obj
            /\ ctor' = [kind |-> "positional", vals |-> <<v1, v2, v3, v4>>,
                        raised |-> r.raised]
            /\ rets' = NoRets
            /\ UNCHANGED rvsVars

CallMethod(m) ==
    /\ inst # NoObj
    /\ rets' = [rets EXCEPT ![m] = Record(@, MethodValue(m, inst))]
    /\ inst' = SelfAfter(m, inst)
    /\ UNCHANGED <<ctor, rvsVars>>

Call_m1 == CallMethod("m1")
Call_m2 == CallMethod("m2")
Call_var == CallMethod("var")
Call_cv == CallMethod("cv")

(***************************************************************************)
(* truncgamma_rvs(mean_target, cv_target, A, B, size, random_state)        *)
(***************************************************************************)
NoSol == [none |-> TRUE]
NoCalib == [none |-> TRUE]
NoRng == [none |-> TRUE]
NoRet == [none |-> TRUE]
NoMemo == [none |-> TRUE]
NoCall == [none |-> TRUE]
NoPoint == [none |-> TRUE]

\* random_state: an integer seed, or None
Seed(n) == [given |-> TRUE, v |-> n]
None == [given |-> FALSE, v |-> 0]

\* the solver works on log_alpha in LogAlphas and log_theta in LogThetas
LogAlphas == 0 .. 2
LogThetas == 0 .. 2
\* the longest length the gammainc table covers for every theta
XMax == ((Len(ExpNegTable) - 1) * S) \div ZS
\* a variate above XMax (inf included)
Beyond == XMax + 1

\* convergence tolerance of the solver on the cv residual and on the mean residual
TolCv == Q \div 8
TolMean == 2 * TolCv

RECURSIVE Log2(_, _)
\* np.log on the grid: floor(log2(v / unit)) for v > 0
Log2(v, unit) ==
    IF v >= 2 * unit THEN 1 + Log2(v \div 2, unit)
    ELSE IF v < unit THEN Log2(2 * v, unit) - 1
    ELSE 0

\* np.exp on the grid: 2 ^ k
Exp2(k) == 2 ^ k

\* lines 175-176: the method-of-moments guess of the untruncated gamma
Alpha0(cv_target) == FDiv(Fin(Q), FSq(Fin(cv_target)))
Theta0(mean_target, alpha0) == (mean_target * Q) \div alpha0.v

\* line 187
InitialGuess(mean_target, cv_target) ==
    LET alpha0 == Alpha0(cv_target)
        theta0 == Theta0(mean_target, alpha0)
    IN  [la |-> Log2(alpha0.v, Q), lt |-> Log2(theta0, S)]

\* the moments computed from the parameters, no object constructed or validated
System_Unchecked(point, c) ==
    LET alpha == Exp2(point.la)
        theta == S * Exp2(point.lt)
        x == Store(c.A, c.B, alpha, theta)
    IN  [raised |-> NoErr,
         built |-> 0,
         residual |-> IF c.A >= 0 /\ c.B > c.A
                      THEN <<FSub(truncgamma_m1(x), Fin((c.mean_target * Q) \div S)),
                             FSub(truncgamma_cv(x), Fin(c.cv_target))>>
                      ELSE <<NaN, NaN>>]

\* lines 179-185: the objective; it constructs a TruncatedGamma on every evaluation
System(point, c) ==
    LET alpha == Exp2(point.la)
        theta == S * Exp2(point.lt)
        made == Keyword(alpha, theta, c.A, c.B)
        x == made.obj
    IN  [raised |-> made.raised,
         built |-> 1,
         residual |-> IF made.raised = NoErr
                      THEN <<FSub(truncgamma_m1(x), Fin((c.mean_target * Q) \div S)),
                             FSub(truncgamma_cv(x), Fin(c.cv_target))>>
                      ELSE <<NaN, NaN>>]

(***************************************************************************)
(* scipy.optimize.root(system, x0, method='hybr'), as a bounded iteration: *)
(* each step evaluates the objective at the current iterate, stops with    *)
(* success when the residual is within tolerance, stops without success    *)
(* when the residual is not finite, when the evaluation cap is reached or  *)
(* when the step leaves the region searched, and moves on otherwise.  The  *)
(* step is a function of the residual alone: root() is deterministic.      *)
(***************************************************************************)
Converged(r) ==
    /\ r[1].fin /\ r[2].fin
    /\ Abs(r[1].v) <= TolMean
    /\ Abs(r[2].v) <= TolCv

\* a solver with no cap on its evaluations
Exhausted_Never(n) == FALSE

\* the evaluation cap
Exhausted(n) == n >= MaxFev

\* a larger shape lowers the cv; a larger scale raises the mean
SolverStep(point, r) ==
    IF Abs(r[2].v) > TolCv
    THEN [la |-> point.la + (IF r[2].v > 0 THEN 1 ELSE -1), lt |-> point.lt]
    ELSE [la |-> point.la, lt |-> point.lt + (IF r[1].v < 0 THEN 1 ELSE -1)]

OnGrid(point) == point.la \in LogAlphas /\ point.lt \in LogThetas

OptimizeResult(success, message, x, n) ==
    [success |-> success, message |-> message, x |-> x, nfev |-> n]

\* what root() does after the n-th evaluation, at point, gave residual r:
\* its result, or NoSol and the next iterate
RootOutcome(point, r, n) ==
    IF ~(r[1].fin /\ r[2].fin)
    THEN [sol |-> OptimizeResult(FALSE, "noprogress", point, n), next |-> point]
    ELSE IF Converged(r)
    THEN [sol |-> OptimizeResult(TRUE, "converged", point, n), next |-> point]
    ELSE IF Exhausted(n)
    THEN [sol |-> OptimizeResult(FALSE, "maxfev", point, n), next |-> point]
    ELSE IF ~OnGrid(SolverStep(point, r))
    THEN [sol |-> OptimizeResult(FALSE, "noprogress", point, n), next |-> point]
    ELSE [sol |-> NoSol, next |-> SolverStep(point, r)]

\* line 191
CalibrationError(s) ==
    [type |-> "ValueError",
     msg |-> "Unable to find alpha and theta using the 2D-solver!",
     sol |-> s]

\* the statement after the guess
AfterGuess == "root"

\* a failed solve that is tried again
AfterCheck_Retry(success) == IF success THEN "seed" ELSE "root"

\* a solver result whose success flag is not looked at
AfterCheck_Ignore(success) == "seed"

\* lines 190-193: raise unless the solver reports success
AfterCheck(success) == IF success THEN "seed" ELSE "error"

(***************************************************************************)
(* numpy.random.default_rng and Generator.uniform; scipy.stats.gamma       *)
(***************************************************************************)
Seeds == 0 .. 1
\* what the operating system's entropy can seed a generator with
Entropy == 0 .. 1

\* the k-th draw of the stream seeded with s, as r in 0..R-1 (the draw is r/R)
Stream(s, k) == (3 * s + k * (s + 2)) % R

\* a generator shared by all calls: made once, then reused
default_rng_Shared(random_state, entropy) ==
    IF rng # NoRng THEN rng
    ELSE [stream |-> IF random_state.given THEN random_state.v ELSE entropy,
          pos |-> 0]

\* line 196: a new generator, seeded by random_state, or by entropy when None
default_rng(random_state, entropy) ==
    [stream |-> IF random_state.given THEN random_state.v ELSE entropy,
     pos |-> 0]

\* a draw on [0, 1) that is not mapped into [low, high)
uniform_Unit(low, high, r) == (Q * r) \div R

\* Generator.uniform for one draw r/R: low + (high - low) * r/R, in [low, high)
uniform(low, high, r) == low + ((high - low) * r) \div R

\* gamma.cdf(x, a = alpha, scale = theta)
cdf(x, alpha, theta) == gammainc(alpha, ZOf(x, theta))

\* gamma.ppf(q, a = alpha, scale = theta): the least length whose probability
\* reaches q (q = 1 gives inf)
ppf(q, alpha, theta) ==
    LET reach == {x \in 0 .. XMax :
                     ZOf(x, theta) < Len(ExpNegTable)
                     /\ GammaincExact(alpha, ZOf(x, theta)) * Q >= q * I}
    IN  IF q >= Q \/ reach = {} THEN Beyond
        ELSE CHOOSE x \in reach : \A y \in reach : x <= y

\* lines 197-200 for the draws r[1..n] of the generator
Variates(c, cal, r) ==
    LET FA == cdf(c.A, cal.alpha, cal.theta)
        FB == cdf(c.B, cal.alpha, cal.theta)
        uu == [i \in 1 .. Len(r) |-> uniform(FA, FB, r[i])]
    IN  [FA |-> FA, FB |-> FB, u |-> uu,
         res |-> [i \in 1 .. Len(r) |-> ppf(uu[i], cal.alpha, cal.theta)]]

(***************************************************************************)
(* The activation, one action per statement.                               *)
(***************************************************************************)
MeanTargets == {S, 2 * S + 1, 2 * S + 2, 3 * S - 1}
CvTargets == {(5 * Q) \div 8, (7 * Q) \div 10, Q}
Lowers == {-S, 0, 1, S, 3 * S}
Uppers == {1, 3 * S, 6 * S}
Sizes == 1 .. MaxSize
RandomStates == {None} \cup {Seed(n) : n \in Seeds}

\* the targets whose initial guess lies in the region the solver searches
Targets ==
    {t \in MeanTargets \X CvTargets : OnGrid(InitialGuess(t[1], t[2]))}

AllCalls ==
    {c \in [mean_target : MeanTargets, cv_target : CvTargets, A : Lowers,
            B : Uppers, size : Sizes, random_state : RandomStates] :
        <<c.mean_target, c.cv_target>> \in Targets}

\* the calls of the reproducibility sessions
ReproCalls ==
    [mean_target : {2 * S + 1}, cv_target : {(7 * Q) \div 10}, A : {0, 1},
     B : {1, 6 * S}, size : Sizes, random_state : RandomStates]

\* the calls of the termination sessions: one size and one seed
TermCalls == {c \in AllCalls : c.size = 1 /\ c.random_state = Seed(0)}

Running == {"guess", "root", "eval", "check", "seed", "draw", "return"}

\* a call enters the function: a new frame, every local unset
CallFrom(calls) ==
    /\ pc \in {"idle", "done", "error"}
    /\ \E c \in calls : call' = c
    /\ pc' = "guess"
    /\ x0' = NoPoint /\ cur' = NoPoint
    /\ nfev' = 0 /\ nctor' = 0 /\ nroot' = 0
    /\ sol' = NoSol /\ calib' = NoCalib
    /\ u' = <<>> /\ res' = <<>> /\ ret' = NoRet /\ err' = NoErr
    /\ steps' = <<>>
    /\ between' = IF memo = NoMemo THEN 0 ELSE IF between < 2 THEN between + 1 ELSE 2
    /\ UNCHANGED <<rng, memo, objVars>>

Call == CallFrom(AllCalls)
CallRepro == CallFrom(ReproCalls)
CallTerm == CallFrom(TermCalls)

\* lines 175-187
Guess ==
    /\ pc = "guess"
    /\ x0' = InitialGuess(call.mean_target, call.cv_target)
    /\ steps' = Append(steps, "guess")
    /\ pc' = AfterGuess
    /\ UNCHANGED <<call, cur, nfev, nctor, nroot, sol, calib, rng, u, res, ret,
                   err, memo, between, objVars>>

\* line 188: root() is entered
Root ==
    /\ pc = "root"
    /\ nroot' = IF nroot < 2 THEN nroot + 1 ELSE 2
    /\ cur' = x0
    /\ nfev' = 0
    /\ sol' = NoSol
    /\ steps' = IF nroot = 0 THEN Append(steps, "solve") ELSE steps
    /\ pc' = "eval"
    /\ UNCHANGED <<call, x0, nctor, calib, rng, u, res, ret, err, memo, between,
                   objVars>>

\* line 188: one evaluation of the objective inside root(); an exception of
\* the objective leaves root() and truncgamma_rvs
Eval ==
    /\ pc = "eval"
    /\ LET ev == System(cur, call)
           n == IF nfev < MaxFev THEN nfev + 1 ELSE MaxFev
           out == RootOutcome(cur, ev.residual, n)
       IN  /\ nfev' = n
           /\ nctor' = IF nctor + ev.built <= MaxFev THEN nctor + ev.built ELSE MaxFev
           /\ IF ev.raised # NoErr
              THEN /\ err' = ev.raised
                   /\ pc' = "error"
                   /\ UNCHANGED <<cur, sol>>
              ELSE /\ err' = err
                   /\ cur' = out.next
                   /\ sol' = out.sol
                   /\ pc' = IF out.sol = NoSol THEN "eval" ELSE "check"
    /\ UNCHANGED <<call, x0, nroot, calib, rng, u, res, ret, steps, memo, between,
                   objVars>>

\* lines 190-193
Check ==
    /\ pc = "check"
    /\ pc' = AfterCheck(sol.success)
    /\ IF AfterCheck(sol.success) = "error"
       THEN err' = CalibrationError(sol) /\ calib' = calib
       ELSE /\ err' = err
            /\ calib' = IF AfterCheck(sol.success) = "seed"
                        THEN [alpha |-> Exp2(sol.x.la), theta |-> S * Exp2(sol.x.lt)]
                        ELSE calib
    /\ UNCHANGED <<call, x0, cur, nfev, nctor, nroot, sol, rng, u, res, ret, steps,
                   memo, between, objVars>>

\* line 196
MakeRng ==
    /\ pc = "seed"
    /\ \E e \in Entropy :
          /\ call.random_state.given => e = 0
          /\ rng' = default_rng(call.random_state, e)
    /\ steps' = Append(steps, "seed")
    /\ pc' = "draw"
    /\ UNCHANGED <<call, x0, cur, nfev, nctor, nroot, sol, calib, u, res, ret, err,
                   memo, between, objVars>>

\* lines 197-200
Draw ==
    /\ pc = "draw"
    /\ LET r == [i \in 1 .. call.size |-> Stream(rng.stream, rng.pos + i - 1)]
           v == Variates(call, calib, r)
       IN  /\ u' = v.u
           /\ res' = v.res
    /\ rng' = [rng EXCEPT !.pos = @ + call.size]
    /\ steps' = Append(steps, "draw")
    /\ pc' = "return"
    /\ UNCHANGED <<call, x0, cur, nfev, nctor, nroot, sol, calib, ret, err, memo,
                   between, objVars>>

\* line 202
Return ==
    /\ pc = "return"
    /\ ret' = [value |-> res]
    /\ steps' = Append(steps, "return")
    /\ pc' = "done"
    /\ UNCHANGED <<call, x0, cur, nfev, nctor, nroot, sol, calib, rng, u, res, err,
                   memo, between, objVars>>

\* an observer keeps one seeded call and what it returned
Remember ==
    /\ pc = "done"
    /\ memo = NoMemo
    /\ call.random_state.given
    /\ memo' = [key |-> call, out |-> ret]
    /\ between' = 0
    /\ UNCHANGED <<pc, call, x0, cur, nfev, nctor, nroot, sol, calib, rng, u, res,
                   ret, err, steps, objVars>>

\* a caller's fixture object, as in the tests
ConstructFixture ==
    LET r == Keyword(1, 1, 0, 1)
    IN  /\ inst' = r.obj
        /\ ctor' = [kind |-> "keyword", vals |-> <<1, 1, 0, 1>>, raised |-> r.raised]
        /\ rets' = NoRets
        /\ UNCHANGED rvsVars

(***************************************************************************)
(* Specifications                                                          *)
(***************************************************************************)
Init ==
    /\ inst = NoObj
    /\ ctor = [kind |-> "none", vals |-> <<0, 0, 0, 0>>, raised |-> NoErr]
    /\ rets = NoRets
    /\ pc = "idle"
    /\ call = NoCall
    /\ x0 = NoPoint /\ cur = NoPoint
    /\ nfev = 0 /\ nctor = 0 /\ nroot = 0
    /\ sol = NoSol /\ calib = NoCalib /\ rng = NoRng
    /\ u = <<>> /\ res = <<>> /\ ret = NoRet /\ err = NoErr
    /\ steps = <<>>
    /\ memo = NoMemo
    /\ between = 0

\* the statements of one activation
Step == Guess \/ Root \/ Eval \/ Check \/ MakeRng \/ Draw \/ Return

\* a caller of the class
Next ==
    \/ ConstructKeyword
    \/ ConstructPositional
    \/ Call_m1
    \/ Call_m2
    \/ Call_var
    \/ Call_cv

Spec == Init /\ [][Next]_vars

\* callers of truncgamma_rvs
NextRvs == Call \/ Guess \/ Root \/ Eval \/ Check \/ MakeRng \/ Draw \/ Return

SpecRvs == Init /\ [][NextRvs]_vars

NextTerm == CallTerm \/ Guess \/ Root \/ Eval \/ Check \/ MakeRng \/ Draw \/ Return

\* WF_vars(Eval) written out: Eval is enabled exactly when pc = "eval", and
\* <<Eval>>_vars is checked on the steps taken
FairEval == []<>(pc # "eval") \/ []<><<Eval>>_vars

\* an activation that has started runs to its end: the code is synchronous
SpecTerm ==
    /\ Init /\ [][NextTerm]_vars
    /\ WF_vars(Guess) /\ WF_vars(Root) /\ FairEval /\ WF_vars(Check)
    /\ WF_vars(MakeRng) /\ WF_vars(Draw) /\ WF_vars(Return)

\* sessions that repeat calls, among other sampler and model calls
NextRepro ==
    \/ CallRepro
    \/ Guess \/ Root \/ Eval \/ Check \/ MakeRng \/ Draw \/ Return
    \/ Remember
    \/ ConstructFixture
    \/ Call_m1
    \/ Call_cv

SpecRepro == Init /\ [][NextRepro]_vars

(***************************************************************************)
(* Properties                                                              *)
(***************************************************************************)
Range(seq) == {seq[i] : i \in 1 .. Len(seq)}
IsPrefix(a, b) == Len(a) <= Len(b) /\ \A i \in 1 .. Len(a) : a[i] = b[i]
Fields == {"alpha", "theta", "A", "B"}

\* the constraints that the values (alpha, theta, A, B) violate
Violated(alpha, theta, A, B) ==
    {c \in Fields : \/ c = "alpha" /\ alpha <= 0
                    \/ c = "theta" /\ theta <= 0
                    \/ c = "A" /\ A < 0
                    \/ c = "B" /\ B <= A}

MsgOf(c) ==
    CASE c = "alpha" -> AlphaMsg
      [] c = "theta" -> ThetaMsg
      [] c = "A" -> LowerMsg
      [] c = "B" -> UpperMsg

C2_StoredVerbatim ==
    (/\ ctor.kind = "keyword"
     /\ Violated(ctor.vals[1], ctor.vals[2], ctor.vals[3], ctor.vals[4]) = {})
    => inst = [alpha |-> ctor.vals[1], theta |-> ctor.vals[2],
               A |-> ctor.vals[3], B |-> ctor.vals[4]]

\* an object was constructed from four values that tell the fields apart
C2_Witness ==
    /\ ctor.kind = "keyword"
    /\ ctor.vals = <<2, 1, 0, 1>>
    /\ inst # NoObj
    /\ inst.alpha = 2 /\ inst.theta = 1 /\ inst.A = 0 /\ inst.B = 1

\* C3 as stated: four positional values are taken as (alpha, theta, A, B),
\* each validated against the constraint of that field.
C3_SpecOrder ==
    ctor.kind = "positional" =>
        /\ (ctor.raised # NoErr) <=>
              (Violated(ctor.vals[1], ctor.vals[2], ctor.vals[3], ctor.vals[4]) # {})
        /\ inst # NoObj =>
              inst = [alpha |-> ctor.vals[1], theta |-> ctor.vals[2],
                      A |-> ctor.vals[3], B |-> ctor.vals[4]]

\* C3, amended: four positional values are taken as (A, B, alpha, theta): the
\* first is A, the second B, the third alpha, the fourth theta, and each is
\* validated against the constraint of the field it lands in.
C3_SignatureOrder ==
    ctor.kind = "positional" =>
        LET bad == Violated(ctor.vals[3], ctor.vals[4], ctor.vals[1], ctor.vals[2])
        IN  /\ (ctor.raised # NoErr) <=> (bad # {})
            /\ \A c \in Fields : bad = {c} => ctor.raised = ValueError(MsgOf(c))
            /\ inst # NoObj =>
                  inst = [A |-> ctor.vals[1], B |-> ctor.vals[2],
                          alpha |-> ctor.vals[3], theta |-> ctor.vals[4]]

\* a positional construction succeeded with values that would be invalid in
\* the order (alpha, theta, A, B)
C3_Witness ==
    /\ ctor.kind = "positional"
    /\ ctor.vals = <<0, 2, 1, 1>>
    /\ inst # NoObj
    /\ inst.A = 0 /\ inst.B = 2 /\ inst.alpha = 1 /\ inst.theta = 1

ValidCall(c) ==
    /\ c.mean_target > 0 /\ c.cv_target > 0
    /\ c.A >= 0 /\ c.B > c.A
    /\ c.size >= 1

C5_Reproducible ==
    (pc = "done" /\ memo # NoMemo /\ call = memo.key) => ret = memo.out

\* the kept call was repeated after another sampler call and a model call
C5_Witness ==
    /\ pc = "done" /\ memo # NoMemo /\ call = memo.key
    /\ between = 2
    /\ Len(rets["m1"]) > 0
    /\ ret = memo.out

\* C6: when root() reports no success the call raises the calibration error
\* carrying the solver's result, returns nothing and draws nothing, and
\* root() is entered once per call.
C6_NoRetry ==
    /\ nroot <= 1
    /\ (sol # NoSol /\ ~sol.success) =>
          /\ pc \in {"check", "error"}
          /\ ret = NoRet /\ res = <<>> /\ u = <<>>
          /\ pc = "error" => err = CalibrationError(sol)
    /\ (pc = "error" /\ sol # NoSol) => ~sol.success

\* a call ended with the calibration error of a solver that made no progress
C6_Witness ==
    /\ pc = "error"
    /\ sol # NoSol /\ ~sol.success /\ sol.message = "noprogress"
    /\ err = CalibrationError(sol)
    /\ nroot = 1

\* C7: the steps are guess, solve, then, only after a successful solve,
\* seed, draw and return; a call that ends with an error has made no
\* generator, drawn nothing and returned nothing.
C7_NoPartialResults ==
    /\ IsPrefix(steps, <<"guess", "solve", "seed", "draw", "return">>)
    /\ "seed" \in Range(steps) => (sol # NoSol /\ sol.success)
    /\ pc = "error" =>
          /\ err # NoErr
          /\ ret = NoRet /\ res = <<>> /\ u = <<>>
          /\ "seed" \notin Range(steps) /\ "draw" \notin Range(steps)
    /\ pc = "done" =>
          /\ steps = <<"guess", "solve", "seed", "draw", "return">>
          /\ err = NoErr /\ ret # NoRet

\* a call ended with an error after the solver had evaluated more than once
C7_Witness ==
    /\ pc = "error"
    /\ sol # NoSol /\ sol.nfev > 1
    /\ steps = <<"guess", "solve">>
    /\ ret = NoRet

\* C8: every call that has started ends, with the samples or with an error;
\* the solver evaluates the objective at most MaxFev times.
C8_Terminates ==
    /\ [](nfev <= MaxFev)
    /\ (pc \in Running) ~> (pc \in {"done", "error"})

\* a call ended with an error because the solver used up its evaluations
C8_Witness ==
    /\ pc = "error"
    /\ sol # NoSol /\ sol.message = "maxfev" /\ sol.nfev = MaxFev
    /\ err = CalibrationError(sol)

\* C9: the moment methods leave the object as constructed (its four
\* attributes, still valid, and no other attribute), and each returns the
\* same value on every call.
C9_MethodsPure ==
    inst # NoObj =>
        /\ inst = IF ctor.kind = "keyword"
                  THEN [alpha |-> ctor.vals[1], theta |-> ctor.vals[2],
                        A |-> ctor.vals[3], B |-> ctor.vals[4]]
                  ELSE [A |-> ctor.vals[1], B |-> ctor.vals[2],
                        alpha |-> ctor.vals[3], theta |-> ctor.vals[4]]
        /\ DOMAIN inst = Fields
        /\ inst.alpha > 0 /\ inst.theta > 0 /\ inst.A >= 0 /\ inst.B > inst.A
        /\ \A m \in Methods : Len(rets[m]) = 2 => rets[m][1] = rets[m][2]

\* every method has been called at least twice on one object
C9_Witness ==
    /\ inst # NoObj
    /\ \A m \in Methods : Len(rets[m]) = 2

\* C10: every evaluation of the objective constructs a TruncatedGamma; a
\* call with A < 0 or B <= A ends at the first evaluation with the
\* constructor's error for that bound, before root() returns and before a
\* generator is made.
C10_ValidatedByObjective ==
    /\ nctor = nfev
    /\ (pc # "idle" /\ (call.A < 0 \/ call.B <= call.A)) =>
          /\ pc \in {"guess", "root", "eval", "error"}
          /\ sol = NoSol /\ ret = NoRet
          /\ "seed" \notin Range(steps)
          /\ pc = "error" =>
                /\ nfev = 1 /\ nctor = 1
                /\ err = ValueError(IF call.A < 0 THEN LowerMsg ELSE UpperMsg)

\* a call with a negative lower bound ended with the constructor's error
C10_Witness ==
    /\ pc = "error"
    /\ call.A < 0
    /\ err = ValueError(LowerMsg)
    /\ nfev = 1

=============================================================================
